---- MODULE Spec2Model ----
(***************************************************************************)
(* Mesh topology / incidence engine: Rodin::Geometry::Connectivity<Local>. *)
(* The engine is one record, eng, holding the members of the C++ object;   *)
(* every public method is one action that applies the method's body, with  *)
(* every nested call, to that record.  Assertions are modelled as in a     *)
(* build with assertions enabled: a failed assert ends the program         *)
(* (status "abort").  An access outside a std::vector is undefined         *)
(* behaviour: the model stops there as well (status "ub"), so nothing is   *)
(* ever concluded from what such a program would do next.                  *)
(***************************************************************************)
EXTENDS Integers, Sequences, FiniteSets, TLC

VARIABLES eng, last, used, writer, gens

vars == <<eng, last, used, writer, gens>>

(***************************************************************************)
(* Bounds of the model.                                                    *)
(***************************************************************************)
\* largest vertex count handed to nodes
MaxVertices == 4
\* number of nodes, polytope and clear calls in one run of an engine of
\* maximal dimension below MaxDim (compute calls are not limited)
MaxOps == 4
\* the same for an engine of maximal dimension MaxDim, whose sixteen
\* relations make every further call much more expensive to explore
MaxSolidOps == 2

\* the highest dimension of a shape of the catalogue (Tetrahedron,
\* TriangularPrism); initialize is given a dimension up to it
MaxDim == 3

(***************************************************************************)
(* Shape catalogue.                                                        *)
(***************************************************************************)
Types == {"Point", "Segment", "Triangle", "Quadrilateral", "Tetrahedron",
          "TriangularPrism"}

getGeometryDimension(t) ==
  CASE t = "Point" -> 0
    [] t = "Segment" -> 1
    [] t = "Triangle" -> 2
    [] t = "Quadrilateral" -> 2
    [] t = "Tetrahedron" -> 3
    [] t = "TriangularPrism" -> 3

Range(s) == {s[k] : k \in DOMAIN s}

\* a decomposition that lists the vertices of the cell whatever the
\* dimension asked for
SubPolytopeTableVertices(t, p, dim) ==
  [k \in 1..Len(p) |-> <<"Point", <<p[k]>> >>]

\* a decomposition that lists, above dimension 0, only the segments between
\* consecutive vertices of the tuple
SubPolytopeTableChain(t, p, dim) ==
  IF dim = 0 THEN [k \in 1..Len(p) |-> <<"Point", <<p[k]>> >>]
  ELSE [k \in 1..(Len(p) - 1) |-> <<"Segment", <<p[k], p[k + 1]>> >>]

\* the decomposition tables of getSubPolytopes: the sub-entities of
\* dimension dim of a cell of type t with vertex tuple p, in table order
SubPolytopeTable(t, p, dim) ==
  CASE t = "Segment" /\ dim = 0 ->
         << <<"Point", <<p[1]>> >>, <<"Point", <<p[2]>> >> >>
    [] t = "Segment" /\ dim = 1 -> << <<"Segment", p>> >>
    [] t = "Triangle" /\ dim = 0 ->
         << <<"Point", <<p[1]>> >>, <<"Point", <<p[2]>> >>,
            <<"Point", <<p[3]>> >> >>
    [] t = "Triangle" /\ dim = 1 ->
         << <<"Segment", <<p[1], p[2]>> >>, <<"Segment", <<p[2], p[3]>> >>,
            <<"Segment", <<p[3], p[1]>> >> >>
    [] t = "Triangle" /\ dim = 2 -> << <<"Triangle", p>> >>
    [] t = "Quadrilateral" /\ dim = 0 ->
         << <<"Point", <<p[1]>> >>, <<"Point", <<p[2]>> >>,
            <<"Point", <<p[3]>> >>, <<"Point", <<p[4]>> >> >>
    [] t = "Quadrilateral" /\ dim = 1 ->
         << <<"Segment", <<p[1], p[2]>> >>, <<"Segment", <<p[2], p[4]>> >>,
            <<"Segment", <<p[4], p[3]>> >>, <<"Segment", <<p[3], p[1]>> >> >>
    [] t = "Quadrilateral" /\ dim = 2 -> << <<"Quadrilateral", p>> >>
    [] t = "Tetrahedron" /\ dim = 0 ->
         << <<"Point", <<p[1]>> >>, <<"Point", <<p[2]>> >>,
            <<"Point", <<p[3]>> >>, <<"Point", <<p[4]>> >> >>
    [] t = "Tetrahedron" /\ dim = 1 ->
         << <<"Segment", <<p[1], p[2]>> >>, <<"Segment", <<p[1], p[3]>> >>,
            <<"Segment", <<p[2], p[3]>> >>, <<"Segment", <<p[2], p[4]>> >>,
            <<"Segment", <<p[3], p[4]>> >>, <<"Segment", <<p[4], p[1]>> >> >>
    [] t = "Tetrahedron" /\ dim = 2 ->
         << <<"Triangle", <<p[1], p[2], p[4]>> >>,
            <<"Triangle", <<p[1], p[2], p[3]>> >>,
            <<"Triangle", <<p[1], p[3], p[4]>> >>,
            <<"Triangle", <<p[2], p[3], p[4]>> >> >>
    [] t = "Tetrahedron" /\ dim = 3 -> << <<"Tetrahedron", p>> >>
    [] t = "TriangularPrism" /\ dim = 0 ->
         << <<"Point", <<p[1]>> >>, <<"Point", <<p[2]>> >>,
            <<"Point", <<p[3]>> >>, <<"Point", <<p[4]>> >>,
            <<"Point", <<p[5]>> >>, <<"Point", <<p[6]>> >> >>
    [] t = "TriangularPrism" /\ dim = 1 ->
         << <<"Segment", <<p[1], p[2]>> >>, <<"Segment", <<p[1], p[3]>> >>,
            <<"Segment", <<p[1], p[4]>> >>, <<"Segment", <<p[2], p[3]>> >>,
            <<"Segment", <<p[2], p[5]>> >>, <<"Segment", <<p[3], p[6]>> >>,
            <<"Segment", <<p[4], p[5]>> >>, <<"Segment", <<p[4], p[6]>> >>,
            <<"Segment", <<p[5], p[6]>> >> >>
    [] t = "TriangularPrism" /\ dim = 2 ->
         << <<"Triangle", <<p[1], p[2], p[3]>> >>,
            <<"Quadrilateral", <<p[1], p[2], p[4], p[5]>> >>,
            <<"Quadrilateral", <<p[2], p[3], p[5], p[6]>> >>,
            <<"Quadrilateral", <<p[3], p[1], p[6], p[4]>> >>,
            <<"Triangle", <<p[4], p[5], p[6]>> >> >>
    [] t = "TriangularPrism" /\ dim = 3 -> << <<"TriangularPrism", p>> >>
    [] OTHER -> << >>

\* the assertions of getSubPolytopes on the requested dimension and on the
\* length of the cell's vertex tuple
SubPolytopeAsserts(t, p, dim) ==
  CASE t = "Point" -> dim = 0 /\ Len(p) = 0
    [] t = "Segment" -> dim <= 1 /\ Len(p) = 2
    [] t = "Triangle" -> dim <= 2 /\ Len(p) = 3
    [] t = "Quadrilateral" -> dim <= 2 /\ Len(p) = 4
    [] t = "Tetrahedron" -> dim <= 3 /\ Len(p) = 4
    [] t = "TriangularPrism" -> dim <= 3 /\ Len(p) = 6

(***************************************************************************)
(* The cells and vertex counts the mesh layer hands to the engine.         *)
(***************************************************************************)
CellMenu ==
  { <<"Segment", <<0, 1>> >>,
    <<"Triangle", <<0, 1, 2>> >>,
    <<"Triangle", <<2, 1, 3>> >>,
    <<"Tetrahedron", <<0, 1, 2, 3>> >>,
    <<"Segment", << >> >> }

NodeCounts == {0, MaxVertices}

(***************************************************************************)
(* Engine state.                                                           *)
(***************************************************************************)
Dims(e) == DOMAIN e.m_count

\* no index generator has been made
NoGens == [made |-> FALSE]

\* Connectivity::Connectivity(): m_count has one entry, every other
\* container is empty; m_maximalDimension is not yet set (-1 here)
Constructed ==
  [ status |-> "ok",
    m_maximalDimension |-> -1,
    m_count |-> [d \in {0} |-> 0],
    m_gcount |-> [t \in Types |-> 0],
    m_index |-> << >>,
    m_geometry |-> << >>,
    m_connectivity |-> << >>,
    m_dirty |-> << >>,
    work |-> 0 ]

\* last: the method called last and the number of steps it took that wrote
\* an entity or a relation (for polytope and nodes the entities inserted,
\* for compute the build, transpose and intersection calls: the build
\* counter); used: how many nodes, polytope and clear calls the run has made;
\* writer: the per-entity steps a compute that runs step by step has still
\* to take (empty wherever a method runs as one action); gens: the index
\* generators of a consumer and what they have yielded (none where the
\* engine alone is explored)
Init ==
  /\ eng = Constructed
  /\ last = [op |-> "construct", work |-> 0]
  /\ used = 0
  /\ writer = << >>
  /\ gens = NoGens

Abort(e) == [e EXCEPT !.status = "abort"]
Undefined(e) == [e EXCEPT !.status = "ub"]
Alive(e) == e.status = "ok"
\* one more step that wrote an entity or a relation
Work(e) == [e EXCEPT !.work = @ + 1]

\* number of per-dimension slots of a container
Size(f) == Cardinality(DOMAIN f)

(***************************************************************************)
(* Polytope index: boost::bimap of vertex tuple <-> identifier, here a set *)
(* of pairs <<key, idx>>.                                                  *)
(***************************************************************************)
\* equality of two keys of the index of dimension d
KeyEq(e, d, a, b) ==
  IF d = e.m_maximalDimension THEN a = b ELSE Range(a) = Range(b)

\* LeftInsert without the lookup of an equal key: every key is inserted anew
LeftInsertNoDedup(e, d, key, val) ==
  [inserted |-> TRUE, idx |-> val, key |-> key,
   index |-> e.m_index[d] \cup {<<key, val>>}]

\* LeftInsert that compares the keys of every dimension as ordered tuples
LeftInsertOrdered(e, d, key, val) ==
  LET ix == e.m_index[d]
      sameKey == {p \in ix : p[1] = key}
  IN  IF sameKey # {}
        THEN [inserted |-> FALSE, idx |-> (CHOOSE p \in sameKey : TRUE)[2],
              key |-> key, index |-> ix]
      ELSE [inserted |-> TRUE, idx |-> val, key |-> key,
            index |-> ix \cup {<<key, val>>}]

\* left.insert({key, val}): the pair is added unless the bimap already holds
\* an equal key or the identifier val; idx is it->second of the returned
\* iterator
LeftInsert(e, d, key, val) ==
  LET ix == e.m_index[d]
      sameKey == {p \in ix : KeyEq(e, d, p[1], key)}
      sameVal == {p \in ix : p[2] = val}
  IN  IF sameKey # {}
        THEN [inserted |-> FALSE, idx |-> (CHOOSE p \in sameKey : TRUE)[2],
              key |-> (CHOOSE p \in sameKey : TRUE)[1], index |-> ix]
      ELSE IF sameVal # {}
        THEN [inserted |-> FALSE, idx |-> val,
              key |-> (CHOOSE p \in sameVal : TRUE)[1], index |-> ix]
      ELSE [inserted |-> TRUE, idx |-> val, key |-> key,
            index |-> ix \cup {<<key, val>>}]

\* getIndex(dim, key): -1 stands for the empty optional
getIndex(e, dim, key) ==
  LET hit == {p \in e.m_index[dim] : KeyEq(e, dim, p[1], key)}
  IN  IF hit = {} THEN -1 ELSE (CHOOSE p \in hit : TRUE)[2]

\* getPolytope(d, idx) = m_index[d].right.at(idx); << >> where at() throws
getPolytope(e, d, idx) ==
  LET hit == {p \in e.m_index[d] : p[2] = idx}
  IN  IF hit = {} THEN << >> ELSE (CHOOSE p \in hit : TRUE)[1]

getCount(e, dim) == e.m_count[dim]

getCountOfType(e, g) == e.m_gcount[g]

getGeometry(e, d, idx) ==
  IF d = 0 THEN "Point" ELSE e.m_geometry[d][idx + 1]

getIncidence(e, d, dp) == e.m_connectivity[d][dp]

\* getMeshDimension that answers the dimension given to initialize
getMeshDimensionMaximal(e) ==
  IF e.m_maximalDimension < 0 THEN 0 ELSE e.m_maximalDimension

\* the loop of getMeshDimension, from the index i downwards
RECURSIVE MeshDimensionLoop(_, _)
MeshDimensionLoop(e, i) ==
  IF i < 0 THEN 0
  ELSE IF e.m_count[i] > 0 THEN i
  ELSE MeshDimensionLoop(e, i - 1)

getMeshDimension(e) == MeshDimensionLoop(e, Size(e.m_count) - 1)

(***************************************************************************)
(* How a call of a getter ends on the engine e: "value" where it returns,  *)
(* "abort" where an assert fails or at() throws, "ub" where it reads       *)
(* outside a vector.                                                       *)
(***************************************************************************)
getCountOutcome(e, dim) ==
  IF dim \in DOMAIN e.m_count THEN "value" ELSE "ub"

\* getMeshDimension() has no assert and stays inside m_count
getMeshDimensionOutcome(e) == "value"

getIndexOutcome(e, dim, key) ==
  IF dim \in DOMAIN e.m_index THEN "value" ELSE "ub"

getPolytopeOutcome(e, d, idx) ==
  IF d \notin DOMAIN e.m_index THEN "ub"
  ELSE IF getPolytope(e, d, idx) = << >> THEN "abort"
  ELSE "value"

\* getIncidence(d, dp), the whole relation
getIncidenceOutcome(e, d, dp) ==
  IF d \notin DOMAIN e.m_connectivity THEN "abort"
  ELSE IF dp \notin DOMAIN e.m_connectivity[d] THEN "abort"
  ELSE "value"

\* getIncidence({d, dp}, idx), the set of one entity
getIncidenceAtOutcome(e, d, dp, idx) ==
  IF getIncidenceOutcome(e, d, dp) = "abort" THEN "abort"
  ELSE IF ~(idx < Len(e.m_connectivity[d][dp])) THEN "abort"
  ELSE "value"

(***************************************************************************)
(* initialize                                                              *)
(***************************************************************************)
\* m_count.resize(n, 0)
ResizeCount(c, n) ==
  [d \in 0..(n - 1) |-> IF d \in DOMAIN c THEN c[d] ELSE 0]

\* initialize that sizes the flags with false
initializeClean(e, maximalDimension) ==
  LET e1 == [e EXCEPT !.m_maximalDimension = maximalDimension,
                      !.m_count = ResizeCount(e.m_count, maximalDimension + 1)]
      R == 0..maximalDimension
  IN  IF Size(e.m_connectivity) # 0 THEN Abort(e1)
      ELSE [e1 EXCEPT
              !.m_connectivity = [d \in R |-> [dp \in R |-> << >>]],
              !.m_dirty = [d \in R |-> [dp \in R |-> FALSE]],
              !.m_index = [d \in R |-> {}],
              !.m_geometry = [d \in R |-> << >>]]

initialize(e, maximalDimension) ==
  LET e1 == [e EXCEPT !.m_maximalDimension = maximalDimension,
                      !.m_count = ResizeCount(e.m_count, maximalDimension + 1)]
      R == 0..maximalDimension
  IN  IF Size(e.m_connectivity) # 0 THEN Abort(e1)
      ELSE [e1 EXCEPT
              !.m_connectivity = [d \in R |-> [dp \in R |-> << >>]],
              !.m_dirty = [d \in R |-> [dp \in R |-> TRUE]],
              !.m_index = [d \in R |-> {}],
              !.m_geometry = [d \in R |-> << >>]]

(***************************************************************************)
(* nodes                                                                   *)
(***************************************************************************)
RECURSIVE NodesLoop(_, _, _)
NodesLoop(e, i, count) ==
  IF i >= count THEN e
  ELSE IF 0 \notin DOMAIN e.m_index THEN Undefined(e)
  ELSE LET ins == LeftInsert(e, 0, <<i>>, i)
           e1 == [e EXCEPT !.m_index[0] = ins.index]
       IN  IF ~ins.inserted THEN Abort(e1)
           ELSE NodesLoop(Work(e1), i + 1, count)

\* nodes that leaves the count of the type Point alone
nodesNoTypeCount(e, count) ==
  NodesLoop([e EXCEPT !.m_count[0] = count], 0, count)

nodes(e, count) ==
  NodesLoop([e EXCEPT !.m_count[0] = count, !.m_gcount["Point"] = count],
            0, count)

(***************************************************************************)
(* polytope                                                                *)
(***************************************************************************)
\* polytope with the count bumped outside the test of inserted
polytopeCountsAlways(e, t, in) ==
  LET d == getGeometryDimension(t)
  IN  IF Len(in) = 0 \/ d = 0 \/ d > e.m_maximalDimension
           \/ d \notin DOMAIN e.m_index
        THEN Abort(e)
      ELSE LET ins == LeftInsert(e, d, in, e.m_count[d])
               e1 == [e EXCEPT !.m_count[d] = @ + 1]
           IN  IF ins.inserted
                 THEN Work([e1 EXCEPT
                         !.m_index[d] = ins.index,
                         !.m_connectivity[d][0] = Append(@, Range(ins.key)),
                         !.m_geometry[d] = Append(@, t),
                         !.m_gcount[t] = @ + 1,
                         !.m_dirty[d][0] = FALSE])
                 ELSE e1

\* polytope without its assert on the size of the tuple
polytopeNoSizeAssert(e, t, in) ==
  LET d == getGeometryDimension(t)
  IN  IF d = 0 THEN Abort(e)
      ELSE IF e.m_maximalDimension = -1 THEN Undefined(e)
      ELSE IF d > e.m_maximalDimension THEN Abort(e)
      ELSE IF d \notin DOMAIN e.m_index THEN Undefined(e)
      ELSE LET ins == LeftInsert(e, d, in, e.m_count[d])
           IN  IF ins.inserted
                 THEN Work([e EXCEPT
                         !.m_index[d] = ins.index,
                         !.m_connectivity[d][0] = Append(@, Range(ins.key)),
                         !.m_geometry[d] = Append(@, t),
                         !.m_count[d] = @ + 1,
                         !.m_gcount[t] = @ + 1,
                         !.m_dirty[d][0] = FALSE])
                 ELSE e

polytope(e, t, in) ==
  LET d == getGeometryDimension(t)
  IN  IF Len(in) = 0 THEN Abort(e)
      ELSE IF d = 0 THEN Abort(e)
      ELSE IF e.m_maximalDimension = -1 THEN Undefined(e)
      ELSE IF d > e.m_maximalDimension THEN Abort(e)
      ELSE IF d \notin DOMAIN e.m_index THEN Undefined(e)
      ELSE LET ins == LeftInsert(e, d, in, e.m_count[d])
           IN  IF ins.inserted
                 THEN Work([e EXCEPT
                         !.m_index[d] = ins.index,
                         !.m_connectivity[d][0] = Append(@, Range(ins.key)),
                         !.m_geometry[d] = Append(@, t),
                         !.m_count[d] = @ + 1,
                         !.m_gcount[t] = @ + 1,
                         !.m_dirty[d][0] = FALSE])
                 ELSE e

(***************************************************************************)
(* clear                                                                   *)
(***************************************************************************)
\* clear that empties the whole row of relations of dimension d
clearRow(e, d, dp) ==
  IF d \notin DOMAIN e.m_connectivity THEN Abort(e)
  ELSE IF dp \notin DOMAIN e.m_connectivity[d] THEN Abort(e)
  ELSE [e EXCEPT !.m_dirty[d] = [x \in DOMAIN @ |-> TRUE],
                 !.m_connectivity[d] = [x \in DOMAIN @ |-> << >>]]

\* clear that also forgets the entities of dimension d
clearEntities(e, d, dp) ==
  IF d \notin DOMAIN e.m_connectivity THEN Abort(e)
  ELSE IF dp \notin DOMAIN e.m_connectivity[d] THEN Abort(e)
  ELSE [e EXCEPT !.m_dirty[d][dp] = TRUE, !.m_connectivity[d][dp] = << >>,
                 !.m_index[d] = {}, !.m_count[d] = 0]

clear(e, d, dp) ==
  IF d \notin DOMAIN e.m_connectivity THEN Abort(e)
  ELSE IF dp \notin DOMAIN e.m_connectivity[d] THEN Abort(e)
  ELSE [e EXCEPT !.m_dirty[d][dp] = TRUE, !.m_connectivity[d][dp] = << >>]


(***************************************************************************)
(* transpose and intersection                                              *)
(***************************************************************************)
\* std::vector<IndexSet>::resize(n)
Resize(rel, n) ==
  [k \in 1..n |-> IF k <= Len(rel) THEN rel[k] ELSE {}]

\* the incidence set of entity i (0-based) in the relation rel
At(rel, i) == rel[i + 1]

\* transpose that sizes the relation and marks it clean without filling it
transposeEmpty(e, d, dp) ==
  IF ~Alive(e) THEN e
  ELSE Work([e EXCEPT !.m_connectivity[d][dp] = Resize(@, e.m_count[d]),
                      !.m_dirty[d][dp] = FALSE])

transpose(e, d, dp) ==
  IF ~Alive(e) THEN e
  ELSE IF ~(d < dp) THEN Abort(e)
  ELSE IF d \notin DOMAIN e.m_connectivity THEN Abort(e)
  ELSE IF dp \notin DOMAIN e.m_connectivity[d] THEN Abort(e)
  ELSE
    LET from == e.m_connectivity[dp][d]
        n == e.m_count[d]
        to == Resize(e.m_connectivity[d][dp], n)
    IN  IF e.m_count[dp] > Len(from) THEN Undefined(e)
        ELSE IF \E j \in 0..(e.m_count[dp] - 1) : \E i \in At(from, j) : i >= n
          THEN Undefined(e)
        ELSE Work([e EXCEPT
               !.m_connectivity[d][dp] =
                  [k \in 1..n |->
                     to[k] \cup {j \in 0..(e.m_count[dp] - 1) :
                                   (k - 1) \in At(from, j)}],
               !.m_dirty[d][dp] = FALSE])

\* Keep that lets every pair reached through the pivot pass
KeepAlways(e, d, dp, i, j) == d >= dp

\* Keep that does not tell an entity from itself
KeepSelf(e, d, dp, i, j) ==
  \/ d = dp
  \/ d > dp /\ At(e.m_connectivity[dp][0], j) \subseteq At(e.m_connectivity[d][0], i)

\* the test of intersection on a pair (i, j) reached through the pivot
Keep(e, d, dp, i, j) ==
  \/ d = dp /\ i # j
  \/ d > dp /\ At(e.m_connectivity[dp][0], j) \subseteq At(e.m_connectivity[d][0], i)

\* the loops read (d, dpp), (dpp, dp), (d, 0) and (dp, 0) as they are on
\* entry: exact when the result (d, dp) is none of the relations read, which
\* holds for the calls of compute (pivot 0 with dp > 0 or d = dp, pivot D
\* for (0, 0))
intersection(e, d, dp, dpp) ==
  IF ~Alive(e) THEN e
  ELSE IF ~(d >= dp) THEN Abort(e)
  ELSE
    LET n == e.m_count[d]
        e1 == [e EXCEPT !.m_connectivity[d][dp] = Resize(@, n)]
        c == e1.m_connectivity
        I == 0..(n - 1)
        \* the asserts of the loop body, for every (i, k, j) the loops visit
        sizesOk ==
          \A i \in I :
            /\ i < Len(c[d][dpp])
            /\ \A k \in At(c[d][dpp], i) :
                 /\ k < Len(c[dpp][dp])
                 /\ \A j \in At(c[dpp][dp], k) :
                      i < Len(c[d][0]) /\ j < Len(c[dp][0])
    IN  IF ~sizesOk THEN Abort(e1)
        ELSE Work([e1 EXCEPT
               !.m_connectivity[d][dp] =
                  [k1 \in 1..n |->
                     c[d][dp][k1] \cup
                       {j \in UNION {At(c[dpp][dp], k) : k \in c[d][dpp][k1]} :
                          Keep(e1, d, dp, k1 - 1, j)}],
               !.m_dirty[d][dp] = FALSE])

(***************************************************************************)
(* build                                                                   *)
(***************************************************************************)
\* the loop of local over the sub-entities sub[k..] of one cell; acc is the
\* record [e, s] of the engine and the identifiers collected so far
\* LocalInsert that counts every listed sub-entity, found or inserted
LocalInsertCountsAll(acc, geometry, ins, d, D) ==
  LET e == acc.e
      e1 == IF ins.inserted
              THEN [e EXCEPT
                      !.m_index[d] = ins.index,
                      !.m_geometry[d] = Append(@, geometry),
                      !.m_connectivity[d][0] = Append(@, Range(ins.key))]
              ELSE e
  IN  [e |-> [e1 EXCEPT !.m_count[d] = @ + 1, !.m_gcount[geometry] = @ + 1],
       s |-> acc.s \cup {ins.idx}]

\* the body of the loop of local for one sub-entity of type geometry, ins
\* being what the insert of its vertex tuple returned
LocalInsert(acc, geometry, ins, d, D) ==
  LET e == acc.e
      bump == IF ins.inserted /\ ~(d = D \/ d = 0) THEN 1 ELSE 0
      e1 == IF ins.inserted
              THEN [e EXCEPT
                      !.m_index[d] = ins.index,
                      !.m_geometry[d] = Append(@, geometry),
                      !.m_connectivity[d][0] = Append(@, Range(ins.key))]
              ELSE e
  IN  [e |-> [e1 EXCEPT !.m_count[d] = @ + bump,
                        !.m_gcount[geometry] = @ + bump],
       s |-> acc.s \cup {ins.idx}]

RECURSIVE LocalLoop(_, _, _, _, _)
LocalLoop(acc, sub, k, d, D) ==
  IF k > Len(sub) THEN acc
  ELSE LocalLoop(
         LocalInsert(acc, sub[k][1],
                     LeftInsert(acc.e, d, sub[k][2], acc.e.m_count[d]), d, D),
         sub, k + 1, d, D)

\* m_connectivity[D][d].push_back(std::move(s)) at the end of local
LocalPush(r, D, d) == [r.e EXCEPT !.m_connectivity[D][d] = Append(@, r.s)]

\* getSubPolytopes(out, i, dim) on the cell i of the mesh dimension: how the
\* call ends ("value", "abort" for a failed assert or a throwing at(), "ub"
\* for a read outside m_index or m_geometry) and the list it puts in out
getSubPolytopes(e, i, dim) ==
  LET D == getMeshDimension(e)
  IN  IF D \notin DOMAIN e.m_index THEN [status |-> "ub", out |-> << >>]
      ELSE IF getPolytope(e, D, i) = << >>
        THEN [status |-> "abort", out |-> << >>]
      ELSE IF ~(i < Len(e.m_geometry[D])) THEN [status |-> "ub", out |-> << >>]
      ELSE IF ~SubPolytopeAsserts(e.m_geometry[D][i + 1],
                                  getPolytope(e, D, i), dim)
        THEN [status |-> "abort", out |-> << >>]
      ELSE IF e.m_geometry[D][i + 1] = "Point"
        THEN [status |-> "value", out |-> << <<"Point", <<i>> >> >>]
      ELSE [status |-> "value",
            out |-> SubPolytopeTable(e.m_geometry[D][i + 1],
                                     getPolytope(e, D, i), dim)]

\* the rest of local once getSubPolytopes has ended
LocalSub(e, sub, d, D) ==
  IF sub.status = "abort" THEN Abort(e)
  ELSE IF sub.status = "ub" THEN Undefined(e)
  ELSE LocalPush(LocalLoop([e |-> e, s |-> {}], sub.out, 1, d, D), D, d)

local(e, i, d) ==
  LET D == getMeshDimension(e)
  IN  IF ~Alive(e) THEN e
      ELSE IF ~(d > 0) THEN Abort(e)
      ELSE IF ~(d < D) THEN Abort(e)
      ELSE LocalSub(e, getSubPolytopes(e, i, d), d, D)

RECURSIVE BuildLoop(_, _, _, _)
BuildLoop(e, i, d, D) ==
  IF ~Alive(e) \/ i >= e.m_count[D] THEN e
  ELSE BuildLoop(local(e, i, d), i + 1, d, D)

\* the two flags build sets once its loop over the cells is through
BuildFlags(e, d, D) ==
  IF ~Alive(e) THEN e
  ELSE Work([e EXCEPT !.m_dirty[D][d] = FALSE, !.m_dirty[d][0] = FALSE])

build(e, d) ==
  LET D == getMeshDimension(e)
  IN  IF ~Alive(e) THEN e
      ELSE IF ~(d > 0) THEN Abort(e)
      ELSE IF ~(d < D) THEN Abort(e)
      ELSE IF e.m_dirty[D][0] THEN Abort(e)
      ELSE IF e.m_dirty[D][D] THEN Abort(e)
      ELSE BuildFlags(BuildLoop(e, 0, d, D), d, D)

(***************************************************************************)
(* compute                                                                 *)
(***************************************************************************)
\* the two asserts of compute on the relations (D, x) and (x, 0)
AssertBuilt(e, x, D) ==
  IF ~Alive(e) THEN e
  ELSE IF e.m_dirty[D][x] THEN Abort(e)
  ELSE IF ~(~e.m_dirty[x][0] \/ x = D \/ x = 0) THEN Abort(e)
  ELSE e

\* EnsureBuilt that runs build(x) whatever the dirty flags say
EnsureBuiltAlways(e, x, D) ==
  IF ~Alive(e) THEN e
  ELSE IF x \notin DOMAIN e.m_dirty THEN Undefined(e)
  ELSE AssertBuilt(IF x # D /\ x # 0 THEN build(e, x) ELSE e, x, D)

\* the two lines of compute that bring build(x) up to date and assert it
EnsureBuilt(e, x, D) ==
  IF ~Alive(e) THEN e
  ELSE IF x \notin DOMAIN e.m_dirty THEN Undefined(e)
  ELSE AssertBuilt(IF x # D /\ x # 0 /\ (e.m_dirty[D][x] \/ e.m_dirty[x][0])
                     THEN build(e, x) ELSE e,
                   x, D)

\* the pivot compute takes for a stale (d, dp) with d >= dp
Pivot(d, dp, D) == IF d = 0 /\ dp = 0 THEN D ELSE 0

\* the first step of compute: the relations (0, D) and (D, D) of the cells
TopAdjacency(e, D) ==
  IF e.m_dirty[D][D] THEN intersection(transpose(e, 0, D), D, D, 0) ELSE e

\* assert(!m_dirty[D][D])
AssertTop(e, D) == IF Alive(e) /\ e.m_dirty[D][D] THEN Abort(e) ELSE e

\* m_dirty[d][dp] = false, the last line of compute
MarkClean(e, d, dp) ==
  IF ~Alive(e) THEN e ELSE [e EXCEPT !.m_dirty[d][dp] = FALSE]

RECURSIVE compute(_, _, _)

\* the body of `if (m_dirty[d][dp])` in compute
Derive(e, d, dp, D) ==
  IF ~Alive(e) THEN e
  ELSE IF ~e.m_dirty[d][dp] THEN e
  ELSE IF d < dp THEN transpose(compute(e, dp, d), d, dp)
  ELSE intersection(compute(compute(e, d, Pivot(d, dp, D)),
                            Pivot(d, dp, D), dp),
                    d, dp, Pivot(d, dp, D))

compute(e, d, dp) ==
  LET D == getMeshDimension(e)
  IN  IF ~Alive(e) THEN e
      ELSE IF d = D /\ dp = 0 THEN e
      ELSE IF D \notin DOMAIN e.m_dirty THEN Undefined(e)
      ELSE MarkClean(
             Derive(EnsureBuilt(EnsureBuilt(AssertTop(TopAdjacency(e, D), D),
                                            d, D),
                                dp, D),
                    d, dp, D),
             d, dp)

(***************************************************************************)
(* The public operations as actions.                                       *)
(***************************************************************************)
\* the number of nodes, polytope and clear calls explored on the engine e
Budget(e) == IF e.m_maximalDimension >= MaxDim THEN MaxSolidOps ELSE MaxOps

\* one call of a method: the engine it leaves, and what it did
Call(op, e) ==
  /\ eng' = [e EXCEPT !.work = 0]
  /\ last' = [op |-> op, work |-> e.work]
  /\ UNCHANGED <<writer, gens>>

Initialize(D) ==
  /\ Alive(eng)
  /\ Call("initialize", initialize(eng, D))
  /\ UNCHANGED used

Nodes(n) ==
  /\ Alive(eng)
  /\ used < Budget(eng)
  /\ Call("nodes", nodes(eng, n))
  /\ used' = used + 1

Polytope(cell) ==
  /\ Alive(eng)
  /\ used < Budget(eng)
  /\ Call("polytope", polytope(eng, cell[1], cell[2]))
  /\ used' = used + 1

Compute(d, dp) ==
  /\ Alive(eng)
  /\ Call("compute", compute(eng, d, dp))
  /\ UNCHANGED used

Clear(d, dp) ==
  /\ Alive(eng)
  /\ used < Budget(eng)
  /\ Call("clear", clear(eng, d, dp))
  /\ used' = used + 1

Next ==
  \/ \E D \in 0..MaxDim : Initialize(D)
  \/ \E n \in NodeCounts : Nodes(n)
  \/ \E cell \in CellMenu : Polytope(cell)
  \/ \E d \in 0..MaxDim, dp \in 0..MaxDim : Compute(d, dp)
  \/ \E d \in 0..MaxDim, dp \in 0..MaxDim : Clear(d, dp)

Spec == Init /\ [][Next]_vars

(***************************************************************************)
(* The same engine loaded with a strip of triangles: (0,1,2) and (1,2,3)   *)
(* share the edge {1,2}, (2,3,4) touches (0,1,2) in the vertex 2 only.     *)
(***************************************************************************)
StripMenu ==
  { <<"Triangle", <<0, 1, 2>> >>,
    <<"Triangle", <<1, 2, 3>> >>,
    <<"Triangle", <<2, 3, 4>> >> }

\* the vertices of the first two triangles, or those of the whole strip
StripCounts == {4, MaxVertices + 1}

NextStrip ==
  \/ \E D \in 0..MaxDim : Initialize(D)
  \/ \E n \in StripCounts : Nodes(n)
  \/ \E cell \in StripMenu : Polytope(cell)
  \/ \E d \in 0..MaxDim, dp \in 0..MaxDim : Compute(d, dp)
  \/ \E d \in 0..MaxDim, dp \in 0..MaxDim : Clear(d, dp)

StripSpec == Init /\ [][NextStrip]_vars

(***************************************************************************)
(* The same engine loaded with one cell of each shape that polytope        *)
(* accepts, on six vertices.                                               *)
(***************************************************************************)
ShapeMenu ==
  { <<"Segment", <<0, 1>> >>,
    <<"Triangle", <<0, 1, 2>> >>,
    <<"Quadrilateral", <<0, 1, 2, 3>> >>,
    <<"Tetrahedron", <<0, 1, 2, 3>> >>,
    <<"TriangularPrism", <<0, 1, 2, 3, 4, 5>> >> }

\* the vertices of the prism
ShapeCounts == {MaxVertices + 2}

NextShape ==
  \/ \E D \in 0..MaxDim : Initialize(D)
  \/ \E n \in ShapeCounts : Nodes(n)
  \/ \E cell \in ShapeMenu : Polytope(cell)
  \/ \E d \in 0..MaxDim, dp \in 0..MaxDim : Compute(d, dp)
  \/ \E d \in 0..MaxDim, dp \in 0..MaxDim : Clear(d, dp)

ShapeSpec == Init /\ [][NextShape]_vars

(***************************************************************************)
(* Vocabulary of the properties.                                           *)
(***************************************************************************)
\* the dimensions the engine was sized for
EngineDims(e) == DOMAIN e.m_dirty

\* the identifiers registered in the index of dimension d
Ids(e, d) == {p[2] : p \in e.m_index[d]}

\* vertexSetOf(d, i) as a set of vertices
VertexSet(e, d, i) == Range(getPolytope(e, d, i))

\* incidentSet(d, dp, i): getIncidence((d, dp), i); no set where the
\* relation has no entry i
IncidentSet(e, d, dp, i) ==
  IF i < Len(e.m_connectivity[d][dp]) THEN At(e.m_connectivity[d][dp], i)
  ELSE {}

\* the cell is registered: its tuple is a key of the index of its dimension
\* and the entity has the cell's type
Registered(e, cell) ==
  LET d == getGeometryDimension(cell[1])
  IN  /\ d \in DOMAIN e.m_index
      /\ \E p \in e.m_index[d] :
           p[1] = cell[2] /\ getGeometry(e, d, p[2]) = cell[1]

\* the engine with the same vertices and entities and nothing derived: only
\* the (d, 0) relations, read off the index, are stored
Scratch(e) ==
  [e EXCEPT
     !.m_connectivity =
        [d \in EngineDims(e) |-> [dp \in EngineDims(e) |->
           IF dp = 0 /\ d > 0
             THEN [k \in 1..e.m_count[d] |-> VertexSet(e, d, k - 1)]
             ELSE << >>]],
     !.m_dirty =
        [d \in EngineDims(e) |-> [dp \in EngineDims(e) |->
           ~(dp = 0 /\ d > 0 /\ e.m_count[d] > 0)]]]

\* the engine after deriving (d, dp) from scratch
FromScratch(e, d, dp) == compute(Scratch(e), d, dp)

\* the vertex tuples of the sub-entities of dimension d that getSubPolytopes
\* lists for the cell i of the mesh dimension
SubKeys(e, i, d) ==
  LET D == getMeshDimension(e)
      sub == SubPolytopeTable(getGeometry(e, D, i), getPolytope(e, D, i), d)
  IN  {sub[k][2] : k \in DOMAIN sub}

(***************************************************************************)
(* C1: declaring again a cell (type and vertex tuple) that is already      *)
(* registered changes neither the counts per dimension and per type, nor   *)
(* the index and geometry list and (d,0) relation of the cell's dimension, *)
(* nor any dirty flag.                                                     *)
(***************************************************************************)
C1_RedeclareIsNoOp ==
  [][\A cell \in CellMenu :
       (Polytope(cell) /\ Registered(eng, cell)) =>
          LET d == getGeometryDimension(cell[1])
          IN  /\ Alive(eng')
              /\ eng'.m_count = eng.m_count
              /\ eng'.m_gcount = eng.m_gcount
              /\ eng'.m_index[d] = eng.m_index[d]
              /\ eng'.m_geometry[d] = eng.m_geometry[d]
              /\ eng'.m_connectivity[d][0] = eng.m_connectivity[d][0]
              /\ eng'.m_dirty = eng.m_dirty]_vars

\* a polytope call that found its cell registered, on an engine where
\* nothing has been derived yet (so the cell was declared, not built)
C1_Witness ==
  /\ Alive(eng) /\ last.op = "polytope" /\ last.work = 0
  /\ \E cell \in CellMenu : Registered(eng, cell)
  /\ \A d \in EngineDims(eng) : \A dp \in EngineDims(eng) :
       dp # 0 => eng.m_connectivity[d][dp] = << >>

(***************************************************************************)
(* C2: round trip between identifiers and keys: for every dimension d and  *)
(* i < count(d), getIndex(d, getPolytope(d, i)) = i, and for every         *)
(* registered key v, getPolytope(d, getIndex(d, v)) = v.                   *)
(***************************************************************************)
C2_RoundTrip ==
  Alive(eng) =>
    \A d \in DOMAIN eng.m_index :
      /\ \A i \in 0..(eng.m_count[d] - 1) :
           getIndex(eng, d, getPolytope(eng, d, i)) = i
      /\ \A p \in eng.m_index[d] :
           getPolytope(eng, d, getIndex(eng, d, p[1])) = p[1]

\* two triangles and their five edges are registered
C2_Witness ==
  /\ Alive(eng) /\ eng.m_maximalDimension = 2
  /\ eng.m_count[2] = 2 /\ eng.m_count[1] = 5 /\ eng.m_count[0] = MaxVertices

(***************************************************************************)
(* C3: every relation whose dirty flag is false has count(d) entries and   *)
(* is the relation derived from scratch from the registered entities       *)
(* (wherever that derivation runs to its end and registers no entity that  *)
(* the engine does not have yet).                                          *)
(***************************************************************************)
C3_CleanIsCurrent ==
  Alive(eng) =>
    \A d \in EngineDims(eng) : \A dp \in EngineDims(eng) :
      ~eng.m_dirty[d][dp] =>
         /\ Len(eng.m_connectivity[d][dp]) = eng.m_count[d]
         /\ LET r == FromScratch(eng, d, dp)
            IN  (Alive(r) /\ r.m_count = eng.m_count) =>
                  eng.m_connectivity[d][dp] = r.m_connectivity[d][dp]

(***************************************************************************)
(* C4: transpose symmetry: once (d,dp) and (dp,d), d # dp, have both been  *)
(* queried and are clean, j is in (d,dp)[i] iff i is in (dp,d)[j].         *)
(***************************************************************************)
C4_TransposeSymmetry ==
  Alive(eng) =>
    \A d \in EngineDims(eng) : \A dp \in EngineDims(eng) \ {d} :
      LET q == compute(compute(eng, d, dp), dp, d)
      IN  (Alive(q) /\ ~q.m_dirty[d][dp] /\ ~q.m_dirty[dp][d]) =>
            \A i \in 0..(q.m_count[d] - 1) : \A j \in 0..(q.m_count[dp] - 1) :
              (j \in IncidentSet(q, d, dp, i)) <=> (i \in IncidentSet(q, dp, d, j))

(***************************************************************************)
(* C5: subset closure: for d > dp > 0, after query(d,dp) every j incident  *)
(* to an entity i of dimension d has its vertex set inside that of i.      *)
(***************************************************************************)
C5_SubsetClosure ==
  Alive(eng) =>
    \A d \in EngineDims(eng) : \A dp \in 1..(d - 1) :
      LET q == compute(eng, d, dp)
      IN  Alive(q) =>
            \A i \in 0..(q.m_count[d] - 1) : \A j \in IncidentSet(q, d, dp, i) :
              VertexSet(q, dp, j) \subseteq VertexSet(q, d, i)

(***************************************************************************)
(* C6: idempotent query: from every state, a query of (d,dp) followed at   *)
(* once by a second query of (d,dp) has the second run no build, transpose *)
(* or intersection and change nothing in the engine.                       *)
(***************************************************************************)
C6_SecondQueryIsIdle ==
  Alive(eng) =>
    \A d \in 0..MaxDim : \A dp \in 0..MaxDim :
      LET first == [compute(eng, d, dp) EXCEPT !.work = 0]
          second == compute(first, d, dp)
      IN  Alive(first) => (second.work = 0 /\ second = first)

\* a query that found everything up to date, with derived relations stored
C6_Witness ==
  /\ Alive(eng) /\ last.op = "compute" /\ last.work = 0
  /\ \E d \in EngineDims(eng) : \E dp \in EngineDims(eng) :
       dp # 0 /\ ~eng.m_dirty[d][dp] /\ eng.m_connectivity[d][dp] # << >>

(***************************************************************************)
(* C7: clear then recompute: clear(d,dp) of a clean pair followed by       *)
(* query(d,dp) stores the relation that was stored before the clear and    *)
(* marks the pair clean again, for every pair.                             *)
(***************************************************************************)
C7_ClearThenQueryRestores ==
  [][\A d \in 0..MaxDim : \A dp \in 0..MaxDim :
       (Clear(d, dp) /\ Alive(eng') /\ ~eng.m_dirty[d][dp]) =>
          LET q == compute(eng', d, dp)
          IN  /\ Alive(q)
              /\ ~q.m_dirty[d][dp]
              /\ q.m_connectivity[d][dp] = eng.m_connectivity[d][dp]]_vars

(***************************************************************************)
(* C8: frame of clear: clear(d,dp) sets dirty[d][dp], empties the relation *)
(* (d,dp) and leaves every other relation and flag, the counts, the        *)
(* indices and the geometry lists as they were.                            *)
(***************************************************************************)
C8_ClearFrame ==
  [][\A d \in 0..MaxDim : \A dp \in 0..MaxDim :
       (Clear(d, dp) /\ Alive(eng')) =>
          /\ eng'.m_dirty[d][dp]
          /\ eng'.m_connectivity[d][dp] = << >>
          /\ \A x \in EngineDims(eng) : \A y \in EngineDims(eng) :
               <<x, y>> # <<d, dp>> =>
                 /\ eng'.m_dirty[x][y] = eng.m_dirty[x][y]
                 /\ eng'.m_connectivity[x][y] = eng.m_connectivity[x][y]
          /\ eng'.m_count = eng.m_count
          /\ eng'.m_gcount = eng.m_gcount
          /\ eng'.m_index = eng.m_index
          /\ eng'.m_geometry = eng.m_geometry]_vars

\* a clear was the last call, and another derived relation is still stored
C8_Witness ==
  /\ Alive(eng) /\ last.op = "clear"
  /\ \E d \in EngineDims(eng) : \E dp \in EngineDims(eng) :
       /\ eng.m_dirty[d][dp] /\ eng.m_connectivity[d][dp] = << >>
       /\ \E y \in EngineDims(eng) \ {0, dp} :
            ~eng.m_dirty[d][y] /\ eng.m_connectivity[d][y] # << >>

(***************************************************************************)
(* C9: dense identifiers: for every dimension d the identifiers of the     *)
(* index are exactly 0 .. count(d)-1 and none is mapped to two vertex      *)
(* sets.                                                                   *)
(***************************************************************************)
C9_DenseIdentifiers ==
  Alive(eng) =>
    \A d \in DOMAIN eng.m_index :
      /\ Ids(eng, d) = 0..(eng.m_count[d] - 1)
      /\ \A p \in eng.m_index[d] : \A r \in eng.m_index[d] :
           p[2] = r[2] => p[1] = r[1]

(***************************************************************************)
(* C10: append-only identifiers: across polytope, compute and clear no     *)
(* count(d) decreases and every (key, identifier) pair of an index stays.  *)
(***************************************************************************)
C10_AppendOnly ==
  [][(Alive(eng') /\ last'.op \in {"polytope", "compute", "clear"}) =>
       /\ \A d \in DOMAIN eng.m_count : eng'.m_count[d] >= eng.m_count[d]
       /\ \A d \in DOMAIN eng.m_index : eng.m_index[d] \subseteq eng'.m_index[d]]_vars

\* a clear of a relation of the edges, with the five edges still registered
C10_Witness ==
  /\ Alive(eng) /\ last.op = "clear"
  /\ eng.m_maximalDimension = 2
  /\ eng.m_dirty[1][0] /\ eng.m_count[1] = 5 /\ Cardinality(eng.m_index[1]) = 5

(***************************************************************************)
(* C11: sub-entities are deduplicated by vertex set: when the cells are    *)
(* decomposed into dimension d (0 < d < D), two listed sub-entities with   *)
(* the same vertex set, in whatever order, get one identifier, which is in *)
(* the (D,d) set of both cells; the index of d holds one key per vertex    *)
(* set and count(d) is the number of vertex sets.                          *)
(***************************************************************************)
C11_SharedSubEntityOnce ==
  Alive(eng) =>
    \A d \in 1..(getMeshDimension(eng) - 1) :
      LET D == getMeshDimension(eng)
          b == FromScratch(eng, D, d)
      IN  Alive(b) =>
            /\ \A i \in 0..(b.m_count[D] - 1) : \A j \in 0..(b.m_count[D] - 1) :
                 \A a \in SubKeys(b, i, d) : \A c \in SubKeys(b, j, d) :
                   Range(a) = Range(c) =>
                     /\ getIndex(b, d, a) = getIndex(b, d, c)
                     /\ getIndex(b, d, a) \in IncidentSet(b, D, d, i)
                     /\ getIndex(b, d, a) \in IncidentSet(b, D, d, j)
            /\ \A p \in b.m_index[d] : \A r \in b.m_index[d] :
                 Range(p[1]) = Range(r[1]) => p = r
            /\ b.m_count[d] = Cardinality({Range(p[1]) : p \in b.m_index[d]})

\* triangles (0,1,2) and (2,1,3) were decomposed into edges by a query: the
\* edge listed as (1,2) and as (2,1) has one identifier, in both cells' sets
C11_Witness ==
  /\ Alive(eng) /\ last.op = "compute" /\ last.work > 0
  /\ eng.m_maximalDimension = 2
  /\ eng.m_index[2] = {<< <<0, 1, 2>>, 0>>, << <<2, 1, 3>>, 1>>}
  /\ eng.m_count[1] = 5
  /\ Len(eng.m_connectivity[2][1]) = 2
  /\ getIndex(eng, 1, <<1, 2>>) = getIndex(eng, 1, <<2, 1>>)
  /\ IncidentSet(eng, 2, 1, 0) \cap IncidentSet(eng, 2, 1, 1)
        = {getIndex(eng, 1, <<1, 2>>)}

(***************************************************************************)
(* The two-triangle scenario: the engine after initialize(2), nodes(4),    *)
(* polytope(Triangle, (0,1,2)), polytope(Triangle, (1,2,3)).               *)
(***************************************************************************)
TwoTriangles ==
  [polytope(polytope(nodes(initialize(Constructed, 2), 4),
                     "Triangle", <<0, 1, 2>>),
            "Triangle", <<1, 2, 3>>) EXCEPT !.work = 0]

(***************************************************************************)
(* C12: in the two-triangle scenario, query(2,1) returns and leaves        *)
(* count(2) = 2, count(1) = 5, count(0) = 4, count(Triangle) = 2 and       *)
(* count(Segment) = 5.                                                     *)
(***************************************************************************)
C12_TwoTriangleCounts ==
  eng = TwoTriangles =>
    LET q == compute(eng, 2, 1)
    IN  /\ Alive(q)
        /\ getCount(q, 2) = 2 /\ getCount(q, 1) = 5 /\ getCount(q, 0) = 4
        /\ getCountOfType(q, "Triangle") = 2
        /\ getCountOfType(q, "Segment") = 5

\* the state the scenario's query(2,1) leaves
C12_Witness ==
  /\ last.op = "compute" /\ last.work > 0
  /\ eng = [compute(TwoTriangles, 2, 1) EXCEPT !.work = 0]

(***************************************************************************)
(* C13: in the two-triangle scenario, after the queries (2,1), (1,2) and   *)
(* (2,2): the (2,1) set of T0 has 3 elements, one of them the edge (1,2);  *)
(* the (1,2) set of that edge is {T0, T1}; every other edge has exactly    *)
(* one incident triangle; the (2,2) set of T0 is {T1}.                     *)
(***************************************************************************)
C13_TwoTriangleIncidences ==
  eng = TwoTriangles =>
    LET q == compute(compute(compute(eng, 2, 1), 1, 2), 2, 2)
        shared == getIndex(q, 1, <<1, 2>>)
    IN  /\ Alive(q)
        /\ Cardinality(IncidentSet(q, 2, 1, 0)) = 3
        /\ shared # -1 /\ shared \in IncidentSet(q, 2, 1, 0)
        /\ IncidentSet(q, 1, 2, shared) = {0, 1}
        /\ \A j \in 0..(getCount(q, 1) - 1) :
             j # shared => Cardinality(IncidentSet(q, 1, 2, j)) = 1
        /\ IncidentSet(q, 2, 2, 0) = {1}

\* the state the scenario's three queries leave
C13_Witness ==
  /\ last.op = "compute"
  /\ eng = [compute(compute(compute(TwoTriangles, 2, 1), 1, 2), 2, 2)
              EXCEPT !.work = 0]
  /\ ~eng.m_dirty[2][1] /\ ~eng.m_dirty[1][2] /\ ~eng.m_dirty[2][2]

(***************************************************************************)
(* The single-tetrahedron scenario: the engine after initialize(3),        *)
(* nodes(4), polytope(Tetrahedron, (0,1,2,3)).                             *)
(***************************************************************************)
OneTetrahedron ==
  [polytope(nodes(initialize(Constructed, 3), 4),
            "Tetrahedron", <<0, 1, 2, 3>>) EXCEPT !.work = 0]

(***************************************************************************)
(* C14: in the single-tetrahedron scenario, the queries (3,2) and (3,1)    *)
(* return and leave count(3) = 1, count(2) = 4, count(1) = 6,              *)
(* count(0) = 4, a (3,2) set of the cell with 4 elements and a (3,1) set   *)
(* with 6.                                                                 *)
(***************************************************************************)
C14_TetrahedronScenario ==
  eng = OneTetrahedron =>
    LET q == compute(compute(eng, 3, 2), 3, 1)
    IN  /\ Alive(q)
        /\ getCount(q, 3) = 1 /\ getCount(q, 2) = 4
        /\ getCount(q, 1) = 6 /\ getCount(q, 0) = 4
        /\ Cardinality(IncidentSet(q, 3, 2, 0)) = 4
        /\ Cardinality(IncidentSet(q, 3, 1, 0)) = 6

\* the state the scenario's two queries leave
C14_Witness ==
  /\ last.op = "compute" /\ last.work > 0
  /\ eng = [compute(compute(OneTetrahedron, 3, 2), 3, 1) EXCEPT !.work = 0]
  /\ ~eng.m_dirty[3][2] /\ ~eng.m_dirty[3][1]

(***************************************************************************)
(* C15: cell adjacency is facet adjacency: after query(D,D), a cell j in   *)
(* the (D,D) set of another cell i shares with i a sub-entity of           *)
(* dimension D-1 (the same vertex set is listed for both).                 *)
(***************************************************************************)
C15_FacetAdjacency ==
  Alive(eng) =>
    LET D == getMeshDimension(eng)
        q == compute(eng, D, D)
    IN  (D >= 1 /\ Alive(q)) =>
          \A i \in 0..(getCount(q, D) - 1) : \A j \in IncidentSet(q, D, D, i) :
            j # i =>
              \E a \in SubKeys(q, i, D - 1) : \E c \in SubKeys(q, j, D - 1) :
                Range(a) = Range(c)

(***************************************************************************)
(* C16: zero-cell mesh: on an engine initialized with a maximal dimension  *)
(* of at least 1, with vertices declared and no cell, query(d,dp) returns  *)
(* for every d, dp up to the maximal dimension, without a failed assert or *)
(* an access out of range, and the relation (d,dp) holds no incidence.     *)
(***************************************************************************)
C16_ZeroCellQueries ==
  (/\ Alive(eng) /\ eng.m_maximalDimension >= 1
   /\ getCount(eng, 0) > 0
   /\ \A d \in 1..eng.m_maximalDimension :
        getCount(eng, d) = 0 /\ eng.m_index[d] = {}) =>
    \A d \in EngineDims(eng) : \A dp \in EngineDims(eng) :
      LET q == compute(eng, d, dp)
      IN  /\ Alive(q)
          /\ \A k \in DOMAIN getIncidence(q, d, dp) :
               getIncidence(q, d, dp)[k] = {}

(***************************************************************************)
(* C17: initialize is one-time: a call of initialize on an engine that is  *)
(* already initialized fails, and has not resized or reset a per-dimension *)
(* structure (counts, relations, flags, indices, geometry lists).          *)
(***************************************************************************)
C17_InitializeOnce ==
  [][\A D \in 0..MaxDim :
       (Initialize(D) /\ eng.m_maximalDimension >= 0) =>
          /\ ~Alive(eng')
          /\ eng'.m_count = eng.m_count
          /\ eng'.m_connectivity = eng.m_connectivity
          /\ eng'.m_dirty = eng.m_dirty
          /\ eng'.m_index = eng.m_index
          /\ eng'.m_geometry = eng.m_geometry]_vars

(***************************************************************************)
(* C18: on the constructed engine, before initialize, every public         *)
(* operation fails with an error: nodes, polytope, compute and clear end   *)
(* in a failed assert with the engine as it was, and the getters of the    *)
(* count, the mesh dimension, an incident set, a vertex tuple and an       *)
(* identifier return no value.                                             *)
(***************************************************************************)
C18_UninitializedFails ==
  eng = Constructed =>
    /\ \A n \in NodeCounts : nodes(eng, n) = Abort(eng)
    /\ \A cell \in CellMenu : polytope(eng, cell[1], cell[2]) = Abort(eng)
    /\ \A d \in 0..MaxDim : \A dp \in 0..MaxDim :
         /\ compute(eng, d, dp) = Abort(eng)
         /\ clear(eng, d, dp) = Abort(eng)
         /\ getIncidenceAtOutcome(eng, d, dp, 0) = "abort"
    /\ \A d \in 0..MaxDim :
         /\ getCountOutcome(eng, d) = "abort"
         /\ getPolytopeOutcome(eng, d, 0) = "abort"
         /\ getIndexOutcome(eng, d, <<0>>) = "abort"
    /\ getMeshDimensionOutcome(eng) = "abort"

(***************************************************************************)
(* C19: on an initialized engine, with d or dp above the maximal           *)
(* dimension, compute(d,dp), clear(d,dp), getIncidence(d,dp),              *)
(* getIncidence((d,dp), i), getCount(d) and polytope with a type of        *)
(* dimension d all fail with an error (a failed assert), none reads or     *)
(* writes outside a per-dimension structure.                               *)
(***************************************************************************)
C19_DimensionOutOfRange ==
  (Alive(eng) /\ eng.m_maximalDimension >= 0) =>
    /\ \A d \in 0..MaxDim : \A dp \in 0..MaxDim :
         (d > eng.m_maximalDimension \/ dp > eng.m_maximalDimension) =>
           /\ compute(eng, d, dp).status = "abort"
           /\ clear(eng, d, dp).status = "abort"
           /\ getIncidenceOutcome(eng, d, dp) = "abort"
           /\ getIncidenceAtOutcome(eng, d, dp, 0) = "abort"
    /\ \A d \in 0..MaxDim :
         d > eng.m_maximalDimension => getCountOutcome(eng, d) = "abort"
    /\ \A cell \in CellMenu :
         getGeometryDimension(cell[1]) > eng.m_maximalDimension =>
           polytope(eng, cell[1], cell[2]).status = "abort"

(***************************************************************************)
(* C20: polytope with an empty vertex tuple fails at its assert and leaves *)
(* the counts, indices, relations and flags as they were; no index of any  *)
(* dimension ever holds an empty key.                                      *)
(***************************************************************************)
C20_EmptyTupleFails ==
  /\ [](\A d \in DOMAIN eng.m_index : \A p \in eng.m_index[d] : Len(p[1]) > 0)
  /\ [][\A cell \in CellMenu :
          (Polytope(cell) /\ Len(cell[2]) = 0) =>
             /\ eng'.status = "abort"
             /\ eng' = Abort(eng)]_vars

\* a failed polytope call on an engine of the highest dimension, with a
\* cell registered: no type of the menu is out of range there, so the call
\* was the one with the empty tuple
C20_Witness ==
  /\ last.op = "polytope" /\ eng.status = "abort"
  /\ eng.m_maximalDimension = MaxDim
  /\ eng.m_count[MaxDim] > 0

(***************************************************************************)
(* C21: nodes(n) on a freshly initialized engine returns with count(0) = n *)
(* and count(Point) = n, getIndex(0, (i)) = i and getPolytope(0, i) = (i)  *)
(* for every i < n, no other identifier of dimension 0, and no entity of   *)
(* a dimension above 0.                                                    *)
(***************************************************************************)
C21_NodesRegistersVertices ==
  [][\A n \in NodeCounts :
       (/\ Nodes(n)
        /\ eng.m_maximalDimension >= 0
        /\ eng = [initialize(Constructed, eng.m_maximalDimension)
                    EXCEPT !.work = 0]) =>
          /\ Alive(eng')
          /\ getCount(eng', 0) = n /\ getCountOfType(eng', "Point") = n
          /\ \A i \in 0..(n - 1) :
               getIndex(eng', 0, <<i>>) = i /\ getPolytope(eng', 0, i) = <<i>>
          /\ Ids(eng', 0) = 0..(n - 1)
          /\ \A d \in 1..eng.m_maximalDimension :
               /\ getCount(eng', d) = 0 /\ eng'.m_index[d] = {}
               /\ eng'.m_geometry[d] = << >>
          /\ \A t \in Types \ {"Point"} : getCountOfType(eng', t) = 0]_vars

\* the state nodes(MaxVertices) leaves on a fresh engine of dimension 2
C21_Witness ==
  /\ last.op = "nodes" /\ last.work = MaxVertices
  /\ eng = [nodes(initialize(Constructed, 2), MaxVertices) EXCEPT !.work = 0]

(***************************************************************************)
(* C22: nodes marks the pair (0,0) clean: when nodes returns on an         *)
(* initialized engine, the flag dirty[0][0] is false.                      *)
(***************************************************************************)
C22_NodesMarksClean ==
  [][\A n \in NodeCounts :
       (Nodes(n) /\ eng.m_maximalDimension >= 0 /\ Alive(eng')) =>
          ~eng'.m_dirty[0][0]]_vars

(***************************************************************************)
(* C23: initialize(D) returns with every flag dirty[d][dp], d, dp <= D,    *)
(* true; the first polytope call that registers a cell of dimension D      *)
(* makes the flag of (D,0) false; a polytope call changes no flag but the  *)
(* one of (d,0), d the dimension of the declared cell.                     *)
(***************************************************************************)
C23_DirtyMatrix ==
  [][/\ \A D \in 0..MaxDim :
          (Initialize(D) /\ Alive(eng')) =>
             /\ DOMAIN eng'.m_dirty = 0..D
             /\ \A d \in 0..D :
                  /\ DOMAIN eng'.m_dirty[d] = 0..D
                  /\ \A dp \in 0..D : eng'.m_dirty[d][dp]
      /\ \A cell \in CellMenu :
          (Polytope(cell) /\ Alive(eng')) =>
             LET dc == getGeometryDimension(cell[1])
             IN  /\ \A d \in EngineDims(eng) : \A dp \in EngineDims(eng) :
                      <<d, dp>> # <<dc, 0>> =>
                        eng'.m_dirty[d][dp] = eng.m_dirty[d][dp]
                 /\ (dc = eng.m_maximalDimension /\ getCount(eng, dc) = 0) =>
                      ~eng'.m_dirty[dc][0]]_vars

\* the first cell of the highest dimension was just declared on an engine
\* where nothing else had been done: only the flag of (D,0) is false
C23_Witness ==
  /\ Alive(eng) /\ last.op = "polytope" /\ last.work = 1
  /\ eng.m_maximalDimension >= 1
  /\ getCount(eng, eng.m_maximalDimension) = 1
  /\ \A d \in EngineDims(eng) : \A dp \in EngineDims(eng) :
       eng.m_dirty[d][dp] <=> <<d, dp>> # <<eng.m_maximalDimension, 0>>

(***************************************************************************)
(* C24: a query returns a clean relation: in every state with at least one *)
(* cell declared, for every pair (d,dp) up to the maximal dimension, when  *)
(* compute(d,dp) returns the flag of (d,dp) is false, also for the pair    *)
(* (D,0) after a clear(D,0).                                               *)
(***************************************************************************)
C24_QueryLeavesClean ==
  (/\ Alive(eng) /\ eng.m_maximalDimension >= 1
   /\ \E d \in 1..eng.m_maximalDimension : getCount(eng, d) > 0) =>
    \A d \in EngineDims(eng) : \A dp \in EngineDims(eng) :
      LET q == compute(eng, d, dp)
      IN  Alive(q) => ~q.m_dirty[d][dp]

(***************************************************************************)
(* C25: the top dimension D that compute and build work with is the        *)
(* maximal dimension given to initialize, whatever entities are declared:  *)
(* in every state with a cell declared it equals m_maximalDimension, and   *)
(* no polytope call changes it.                                            *)
(***************************************************************************)
C25_TopDimensionFixed ==
  /\ [](( /\ Alive(eng) /\ eng.m_maximalDimension >= 1
          /\ \E d \in 1..eng.m_maximalDimension : getCount(eng, d) > 0) =>
           getMeshDimension(eng) = eng.m_maximalDimension)
  /\ [][\A cell \in CellMenu :
          (Polytope(cell) /\ Alive(eng') /\ eng.m_maximalDimension >= 1
             /\ \E d \in 1..eng.m_maximalDimension : getCount(eng, d) > 0) =>
             getMeshDimension(eng') = getMeshDimension(eng)]_vars

(***************************************************************************)
(* C26: getMeshDimension() is the highest dimension d with count(d) >= 1,  *)
(* and 0 when there is none, in every state; it does not decrease over     *)
(* the nodes, polytope, compute and clear calls.                           *)
(***************************************************************************)
C26_MeshDimension ==
  /\ [](Alive(eng) =>
          LET pos == {d \in DOMAIN eng.m_count : getCount(eng, d) >= 1}
          IN  /\ pos = {} => getMeshDimension(eng) = 0
              /\ pos # {} =>
                   /\ getMeshDimension(eng) \in pos
                   /\ \A d \in pos : d <= getMeshDimension(eng))
  /\ [][(Alive(eng') /\ last'.op \in {"nodes", "polytope", "compute", "clear"})
          => getMeshDimension(eng') >= getMeshDimension(eng)]_vars

\* a triangle was declared after a segment on an engine sized for solids:
\* the mesh dimension went from 1 to 2, below the maximal dimension
C26_Witness ==
  /\ Alive(eng) /\ last.op = "polytope" /\ last.work = 1
  /\ eng.m_maximalDimension = MaxDim
  /\ getCount(eng, 1) = 1 /\ getCount(eng, 2) = 1
  /\ getMeshDimension(eng) = 2

(***************************************************************************)
(* C27: decompose identity: for every cell of the mesh dimension, of       *)
(* whichever shape (a vertex of a mesh of dimension 0 being a Point),      *)
(* getSubPolytopes at the dimension of the shape returns, and lists one    *)
(* sub-entity: the shape with the cell's own vertex tuple.                 *)
(***************************************************************************)
C27_DecomposeIdentity ==
  (Alive(eng) /\ eng.m_maximalDimension >= 0) =>
    LET D == getMeshDimension(eng)
    IN  \A i \in 0..(getCount(eng, D) - 1) :
          LET r == getSubPolytopes(eng, i, D)
          IN  /\ r.status = "value"
              /\ r.out = << <<getGeometry(eng, D, i), getPolytope(eng, D, i)>> >>

\* the number of vertices of a shape
VertexCount(t) ==
  CASE t = "Point" -> 1
    [] t = "Segment" -> 2
    [] t = "Triangle" -> 3
    [] t = "Quadrilateral" -> 4
    [] t = "Tetrahedron" -> 4
    [] t = "TriangularPrism" -> 6

\* the number of sub-entities of dimension dim of a shape
SubEntityCount(t, dim) ==
  CASE dim = 0 -> VertexCount(t)
    [] t = "Triangle" /\ dim = 1 -> 3
    [] t = "Quadrilateral" /\ dim = 1 -> 4
    [] t = "Tetrahedron" /\ dim = 1 -> 6
    [] t = "Tetrahedron" /\ dim = 2 -> 4
    [] t = "TriangularPrism" /\ dim = 1 -> 9
    [] t = "TriangularPrism" /\ dim = 2 -> 5

(***************************************************************************)
(* C28: decomposition tables: for every cell of the mesh dimension and     *)
(* every dimension below it, getSubPolytopes lists the right number of     *)
(* sub-entities (3 and 3 for a triangle, 4 and 4 for a quadrilateral, 4, 6 *)
(* and 4 for a tetrahedron, 6, 9 and 2 triangles + 3 quadrilaterals for a  *)
(* prism), each of the asked dimension, with the vertex count of its type, *)
(* inside the cell's vertices, and with pairwise different vertex sets.    *)
(***************************************************************************)
C28_DecompositionTables ==
  (Alive(eng) /\ eng.m_maximalDimension >= 0) =>
    LET D == getMeshDimension(eng)
    IN  \A i \in 0..(getCount(eng, D) - 1) : \A dim \in 0..(D - 1) :
          LET t == getGeometry(eng, D, i)
              p == getPolytope(eng, D, i)
              r == getSubPolytopes(eng, i, dim)
              out == r.out
          IN  /\ r.status = "value"
              /\ Len(out) = SubEntityCount(t, dim)
              /\ \A k \in DOMAIN out :
                   /\ getGeometryDimension(out[k][1]) = dim
                   /\ Len(out[k][2]) = VertexCount(out[k][1])
                   /\ Cardinality(Range(out[k][2])) = VertexCount(out[k][1])
                   /\ Range(out[k][2]) \subseteq Range(p)
                   /\ \A l \in DOMAIN out :
                        l # k => Range(out[l][2]) # Range(out[k][2])
              /\ (t = "TriangularPrism" /\ dim = 2) =>
                   /\ Cardinality({k \in DOMAIN out : out[k][1] = "Triangle"}) = 2
                   /\ Cardinality({k \in DOMAIN out :
                                     out[k][1] = "Quadrilateral"}) = 3

\* a prism was decomposed into its faces and edges by two queries
C28_Witness ==
  /\ Alive(eng) /\ last.op = "compute" /\ last.work > 0
  /\ eng.m_maximalDimension = 3
  /\ eng.m_geometry[3] = <<"TriangularPrism">>
  /\ getCount(eng, 2) = 5 /\ getCount(eng, 1) = 9
  /\ getCountOfType(eng, "Quadrilateral") = 3
  /\ getCountOfType(eng, "Triangle") = 2

\* intersection(d, dp, dpp) reads the relation (d, dp) it writes
ReadsResult(d, dp, dpp) ==
  IF d = dp THEN dpp = d ELSE dpp = dp \/ dpp = d \/ dp = 0

\* the engine e with nothing stored for the relation (d, dp)
Emptied(e, d, dp) == [e EXCEPT !.m_connectivity[d][dp] = << >>]

\* the entities of dimension dp that the stored relations of e reach from
\* the entity i of dimension d through the pivot dpp
Through(e, d, dp, dpp, i) ==
  UNION {At(e.m_connectivity[dpp][dp], k) : k \in At(e.m_connectivity[d][dpp], i)}

\* the rule of the intersection for the pair (i, j), on the stored (d, 0)
\* and (dp, 0) vertex sets of e
Rule(e, d, dp, dpp, i, j) ==
  /\ j \in Through(e, d, dp, dpp, i)
  /\ d = dp => i # j
  /\ d > dp => At(e.m_connectivity[dp][0], j) \subseteq At(e.m_connectivity[d][0], i)

\* the relation (d, dp) of r is what the rule makes of the relations of e0
FollowsRule(e0, r, d, dp, dpp) ==
  /\ Len(r.m_connectivity[d][dp]) = e0.m_count[d]
  /\ ~r.m_dirty[d][dp]
  /\ \A i \in 0..(e0.m_count[d] - 1) :
       /\ At(r.m_connectivity[d][dp], i) \subseteq 0..(e0.m_count[dp] - 1)
       /\ \A j \in 0..(e0.m_count[dp] - 1) :
            j \in At(r.m_connectivity[d][dp], i) <=> Rule(e0, d, dp, dpp, i, j)

(***************************************************************************)
(* C29: intersection rule: when intersection(d, dp, dpp) with d >= dp runs *)
(* on an engine whose stored (d, dp) is empty and returns, the relation    *)
(* has exactly count(d) entries, its flag is clean, and j is in entry i    *)
(* exactly when some k of (d, dpp)[i] has j in (dpp, dp)[k] and, for       *)
(* d = dp, i # j, and, for d > dp, the (dp, 0) set of j is inside the      *)
(* (d, 0) set of i.  Stated for the calls whose result is none of the     *)
(* relations the rule reads.                                               *)
(***************************************************************************)
C29_IntersectionRule ==
  (Alive(eng) /\ eng.m_maximalDimension >= 0) =>
    \A d \in EngineDims(eng) : \A dp \in 0..d : \A dpp \in EngineDims(eng) :
      LET e0 == Emptied(eng, d, dp)
          r == intersection(e0, d, dp, dpp)
      IN  (Alive(r) /\ ~ReadsResult(d, dp, dpp)) =>
            FollowsRule(e0, r, d, dp, dpp)

\* a query derived a relation (d, dp) with d > dp by the intersection, the
\* relation is not empty, and the subset test turned down an entity that
\* the pivot reaches
C29_Witness ==
  /\ Alive(eng) /\ last.op = "compute" /\ last.work > 0
  /\ eng.m_maximalDimension >= 0
  /\ \E d \in EngineDims(eng) : \E dp \in 0..(d - 1) :
       LET dpp == Pivot(d, dp, getMeshDimension(eng))
           e0 == Emptied(eng, d, dp)
           r == intersection(e0, d, dp, dpp)
       IN  /\ Alive(r)
           /\ ~eng.m_dirty[d][dp]
           /\ r.m_connectivity[d][dp] = eng.m_connectivity[d][dp]
           /\ \E i \in 0..(eng.m_count[d] - 1) :
                /\ At(r.m_connectivity[d][dp], i) # {}
                /\ Through(e0, d, dp, dpp, i) # At(r.m_connectivity[d][dp], i)

\* the entities i and j of dimension d both lie in some cell of dimension D
InCommonCell(e, D, d, i, j) ==
  \E c \in 0..(e.m_count[D] - 1) : {i, j} \subseteq IncidentSet(e, D, d, c)

(***************************************************************************)
(* C30: pivot choice: compute derives a stale (d, dp) with d >= dp through *)
(* the top dimension D, so that, for 0 < d < D, once (d, d) is derived     *)
(* from the registered entities, two distinct entities of dimension d are  *)
(* (d, d)-incident exactly when a cell of dimension D contains both.       *)
(***************************************************************************)
C30_PivotThroughTop ==
  (Alive(eng) /\ eng.m_maximalDimension >= 0) =>
    LET D == getMeshDimension(eng)
    IN  \A d \in 1..(D - 1) :
          LET r == FromScratch(eng, d, d)
          IN  Alive(r) =>
                \A i, j \in 0..(r.m_count[d] - 1) :
                  i # j =>
                    (j \in IncidentSet(r, d, d, i)
                       <=> InCommonCell(r, D, d, i, j))

\* some cell of the mesh dimension D has both vertices i and j
OneCellHasBoth(e, D, i, j) ==
  \E c \in 0..(e.m_count[D] - 1) : {i, j} \subseteq VertexSet(e, D, c)

\* the relation (0, 0) of e is the adjacency of the vertices through the
\* cells of the mesh dimension
VertexAdjacency(e) ==
  LET D == getMeshDimension(e)
  IN  \A i, j \in 0..(e.m_count[0] - 1) :
        j \in IncidentSet(e, 0, 0, i) <=> (i # j /\ OneCellHasBoth(e, D, i, j))

(***************************************************************************)
(* C31: vertex-vertex adjacency: after compute(0, 0) on a mesh with at     *)
(* least one cell, j is in (0, 0)[i] exactly when i # j and some cell of   *)
(* the mesh dimension has both vertices.                                   *)
(***************************************************************************)
C31_VertexAdjacency ==
  (Alive(eng) /\ eng.m_maximalDimension >= 1) =>
    LET r == compute(eng, 0, 0)
    IN  (Alive(r) /\ getMeshDimension(r) >= 1) => VertexAdjacency(r)

\* the identifiers of the sub-entities of dimension d that getSubPolytopes
\* lists for the cell i
SubIds(e, i, d) == {getIndex(e, d, key) : key \in SubKeys(e, i, d)}

\* what build(d) is to leave on the engine r
Built(r, d, D) ==
  /\ ~r.m_dirty[D][d] /\ ~r.m_dirty[d][0]
  /\ Len(r.m_connectivity[D][d]) = r.m_count[D]
  /\ \A i \in 0..(r.m_count[D] - 1) :
       IncidentSet(r, D, d, i) = SubIds(r, i, d)
  /\ Len(r.m_connectivity[d][0]) = r.m_count[d]
  /\ \A j \in 0..(r.m_count[d] - 1) :
       IncidentSet(r, d, 0, j) = VertexSet(r, d, j)

(***************************************************************************)
(* C32: build step: for 0 < d < D, when build(d) is due (one of (D, d),    *)
(* (d, 0) is stale) and completes, both flags are clean, (D, d) has        *)
(* count(D) entries, the one of cell i being the identifiers of the        *)
(* sub-entities getSubPolytopes lists for i, and (d, 0) has count(d)       *)
(* entries, the one of entity j being its vertex set.                      *)
(***************************************************************************)
C32_BuildStep ==
  (Alive(eng) /\ eng.m_maximalDimension >= 1) =>
    LET D == getMeshDimension(eng)
    IN  \A d \in 1..(D - 1) :
          (eng.m_dirty[D][d] \/ eng.m_dirty[d][0]) =>
            LET r == build(eng, d)
            IN  Alive(r) => Built(r, d, D)

(***************************************************************************)
(* C33: frame of compute: a compute that returns leaves every relation     *)
(* whose flag was clean when the call started as it was stored.            *)
(***************************************************************************)
C33_QueryFrame ==
  [][(last'.op = "compute" /\ Alive(eng) /\ Alive(eng')) =>
       \A d \in EngineDims(eng) : \A dp \in EngineDims(eng) :
         ~eng.m_dirty[d][dp] =>
           eng'.m_connectivity[d][dp] = eng.m_connectivity[d][dp]]_vars

\* the sum of getCount(type) over the types of dimension d
TypeCountSum(e, d) ==
  CASE d = 0 -> getCountOfType(e, "Point")
    [] d = 1 -> getCountOfType(e, "Segment")
    [] d = 2 -> getCountOfType(e, "Triangle") + getCountOfType(e, "Quadrilateral")
    [] d = 3 -> getCountOfType(e, "Tetrahedron")
                  + getCountOfType(e, "TriangularPrism")

\* the three counts of dimension d agree with the index and the geometry list
CountsAgree(e, d) ==
  /\ getCount(e, d) = Cardinality(Ids(e, d))
  /\ d > 0 => getCount(e, d) = Len(e.m_geometry[d])
  /\ TypeCountSum(e, d) = getCount(e, d)

(***************************************************************************)
(* C34: count bookkeeping: in every reachable state and every dimension d, *)
(* count(d) is the number of entities in the index of dimension d, for     *)
(* d > 0 the length of the geometry list of d, and the sum of the type     *)
(* counts of the types of dimension d.                                     *)
(***************************************************************************)
C34_CountBookkeeping ==
  (Alive(eng) /\ eng.m_maximalDimension >= 0) =>
    \A d \in EngineDims(eng) : CountsAgree(eng, d)

(***************************************************************************)
(* compute taken one entity at a time.  A step is <<kind, d, dp, dpp, i>>: *)
(* the resize, the body of the outer loop for one entity, or the final     *)
(* flag of transpose and intersection; local(i, d) for one cell or the two *)
(* flags of build; the last line of compute.                               *)
(***************************************************************************)
transposeSteps(e, d, dp) ==
  << <<"transposeResize", d, dp, 0, 0>> >>
    \o [j \in 1..e.m_count[dp] |-> <<"transposeAt", d, dp, 0, j - 1>>]
    \o << <<"transposeFlag", d, dp, 0, 0>> >>

intersectionSteps(e, d, dp, dpp) ==
  << <<"intersectionResize", d, dp, dpp, 0>> >>
    \o [i \in 1..e.m_count[d] |-> <<"intersectionAt", d, dp, dpp, i - 1>>]
    \o << <<"intersectionFlag", d, dp, dpp, 0>> >>

buildSteps(e, d, D) ==
  [i \in 1..e.m_count[D] |-> <<"local", d, 0, 0, i - 1>>]
    \o << <<"buildFlags", d, 0, 0, 0>> >>

\* the body of the loop of transpose for the entity j of dimension dp
transposeAt(e, d, dp, j) ==
  [e EXCEPT !.m_connectivity[d][dp] =
     [k \in DOMAIN @ |->
        @[k] \cup (IF (k - 1) \in At(e.m_connectivity[dp][d], j)
                     THEN {j} ELSE {})]]

\* the body of the loop of intersection for the entity i of dimension d
intersectionAt(e, d, dp, dpp, i) ==
  [e EXCEPT !.m_connectivity[d][dp][i + 1] =
     @ \cup {j \in UNION {At(e.m_connectivity[dpp][dp], k) :
                            k \in At(e.m_connectivity[d][dpp], i)} :
               Keep(e, d, dp, i, j)}]

\* the engine after the step st
Apply(e, st) ==
  LET d == st[2]
      dp == st[3]
  IN  CASE st[1] = "transposeResize" ->
             [e EXCEPT !.m_connectivity[d][dp] = Resize(@, e.m_count[d])]
        [] st[1] = "transposeAt" -> transposeAt(e, d, dp, st[5])
        [] st[1] = "transposeFlag" -> MarkClean(e, d, dp)
        [] st[1] = "intersectionResize" ->
             [e EXCEPT !.m_connectivity[d][dp] = Resize(@, e.m_count[d])]
        [] st[1] = "intersectionAt" -> intersectionAt(e, d, dp, st[4], st[5])
        [] st[1] = "intersectionFlag" -> MarkClean(e, d, dp)
        [] st[1] = "local" -> local(e, st[5], d)
        [] st[1] = "buildFlags" -> BuildFlags(e, d, getMeshDimension(e))
        [] st[1] = "mark" -> MarkClean(e, d, dp)

\* the steps of `if (m_dirty[D][D]) transpose(0, D).intersection(D, D, 0)`
topSteps(e, D) ==
  IF e.m_dirty[D][D]
    THEN transposeSteps(e, 0, D) \o intersectionSteps(e, D, D, 0)
    ELSE << >>

\* the steps of `if (x != D && x != 0 && ...) build(x)`
ensureSteps(e, x, D) ==
  IF x # D /\ x # 0 /\ (e.m_dirty[D][x] \/ e.m_dirty[x][0])
    THEN buildSteps(e, x, D) ELSE << >>

RECURSIVE computeSteps(_, _, _)

\* the steps of intersection(d, dp, dpp) after compute(d, dpp) and
\* compute(dpp, dp), which lead from e to e2
pivotSteps(e, e1, d, dp, dpp) ==
  computeSteps(e, d, dpp) \o computeSteps(e1, dpp, dp)
    \o intersectionSteps(compute(e1, dpp, dp), d, dp, dpp)

\* the steps of the body of `if (m_dirty[d][dp])`
deriveSteps(e, d, dp, D) ==
  IF ~e.m_dirty[d][dp] THEN << >>
  ELSE IF d < dp
    THEN computeSteps(e, dp, d) \o transposeSteps(compute(e, dp, d), d, dp)
  ELSE pivotSteps(e, compute(e, d, Pivot(d, dp, D)), d, dp, Pivot(d, dp, D))

\* the steps of compute from the second build on
secondSteps(e, d, dp, D) ==
  ensureSteps(e, dp, D) \o deriveSteps(EnsureBuilt(e, dp, D), d, dp, D)
    \o << <<"mark", d, dp, 0, 0>> >>

\* the steps of compute from the first build on
firstSteps(e, d, dp, D) ==
  ensureSteps(e, d, D) \o secondSteps(EnsureBuilt(e, d, D), d, dp, D)

\* the steps of a compute(d, dp) that returns, in the order it takes them
computeSteps(e, d, dp) ==
  LET D == getMeshDimension(e)
  IN  IF ~Alive(e) THEN << >>
      ELSE IF d = D /\ dp = 0 THEN << >>
      ELSE topSteps(e, D) \o firstSteps(TopAdjacency(e, D), d, dp, D)

\* a compute(d, dp) that will return is handed to the writer
Start(d, dp) ==
  /\ writer = << >>
  /\ Alive(eng) /\ eng.m_maximalDimension >= 0
  /\ Alive(compute(eng, d, dp))
  /\ computeSteps(eng, d, dp) # << >>
  /\ writer' = computeSteps(eng, d, dp)
  /\ last' = [op |-> "start", work |-> 0]
  /\ UNCHANGED <<eng, used, gens>>

\* the writer takes its next step
Step ==
  /\ writer # << >>
  /\ eng' = [Apply(eng, Head(writer)) EXCEPT !.work = 0]
  /\ writer' = Tail(writer)
  /\ last' = [op |-> Head(writer)[1], work |-> 1]
  /\ UNCHANGED <<used, gens>>

\* the engine in the hands of one writer: the declarations are single
\* steps, a compute is taken step by step, and nothing else runs meanwhile
NextStep ==
  \/ writer = << >> /\ \E D \in 0..MaxDim : Initialize(D)
  \/ writer = << >> /\ \E n \in NodeCounts : Nodes(n)
  \/ writer = << >> /\ \E cell \in CellMenu : Polytope(cell)
  \/ writer = << >> /\ \E d \in 0..MaxDim, dp \in 0..MaxDim : Clear(d, dp)
  \/ \E d \in 0..MaxDim, dp \in 0..MaxDim : Start(d, dp)
  \/ Step

StepSpec == Init /\ [][NextStep]_vars

(***************************************************************************)
(* C35: one writer, many readers: while the writer takes the steps of a    *)
(* compute, no step changes a relation whose flag is clean, so a reader    *)
(* that reads only clean relations never sees one that is still being      *)
(* filled.                                                                 *)
(***************************************************************************)
C35_ReadersSeeWhole ==
  [][writer # << >> =>
       \A d \in EngineDims(eng) : \A dp \in EngineDims(eng) :
         ~eng.m_dirty[d][dp] =>
           eng'.m_connectivity[d][dp] = eng.m_connectivity[d][dp]]_vars

(***************************************************************************)
(* C36: vertex identifiers stay in range: in every reachable state every   *)
(* vertex stored in a relation (d, 0), d > 0, is below count(0), whatever  *)
(* the order of the nodes and polytope calls.                              *)
(***************************************************************************)
C36_VerticesInRange ==
  (Alive(eng) /\ eng.m_maximalDimension >= 0) =>
    \A d \in EngineDims(eng) \ {0} :
      \A k \in DOMAIN eng.m_connectivity[d][0] :
        eng.m_connectivity[d][0][k] \subseteq 0..(getCount(eng, 0) - 1)

\* the two solids of the catalogue
SolidMenu ==
  { <<"Tetrahedron", <<0, 1, 2, 3>> >>,
    <<"TriangularPrism", <<0, 1, 2, 3, 4, 5>> >> }

\* the mesh of the single solid cell: the engine after initialize(3), nodes
\* and polytope(cell)
SingleSolid(cell) ==
  [polytope(nodes(initialize(Constructed, MaxDim), MaxVertices + 2),
            cell[1], cell[2]) EXCEPT !.work = 0]

\* every face of q has as many (2, 1)-incident edges as its type has sides
FacesHaveTheirEdges(q) ==
  \A i \in 0..(getCount(q, 2) - 1) :
    Cardinality(IncidentSet(q, 2, 1, i)) =
      (IF getGeometry(q, 2, i) = "Triangle" THEN 3 ELSE 4)

\* every edge of q has two (1, 2)-incident faces
EdgesHaveTwoFaces(q) ==
  \A j \in 0..(getCount(q, 1) - 1) : Cardinality(IncidentSet(q, 1, 2, j)) = 2

(***************************************************************************)
(* C37: face-edge consistency: in the mesh of one tetrahedron or of one    *)
(* prism, compute(2, 1) returns and gives every triangular face 3 incident *)
(* edges and every quadrilateral face 4, and compute(1, 2) returns and     *)
(* gives every edge 2 incident faces.                                      *)
(***************************************************************************)
C37_FaceEdgeConsistency ==
  \A cell \in SolidMenu :
    eng = SingleSolid(cell) =>
      /\ Alive(compute(eng, 2, 1))
      /\ getCount(compute(eng, 2, 1), 2) = SubEntityCount(cell[1], 2)
      /\ getCount(compute(eng, 2, 1), 1) = SubEntityCount(cell[1], 1)
      /\ FacesHaveTheirEdges(compute(eng, 2, 1))
      /\ Alive(compute(eng, 1, 2))
      /\ getCount(compute(eng, 1, 2), 1) = SubEntityCount(cell[1], 1)
      /\ EdgesHaveTwoFaces(compute(eng, 1, 2))

\* the prism after its compute(1, 2): 9 edges, each between two faces
C37_Witness ==
  /\ last.op = "compute" /\ last.work > 0
  /\ \E cell \in SolidMenu :
       /\ cell[1] = "TriangularPrism"
       /\ eng = [compute(SingleSolid(cell), 1, 2) EXCEPT !.work = 0]
  /\ ~eng.m_dirty[1][2] /\ ~eng.m_dirty[2][1]
  /\ getCount(eng, 1) = 9 /\ getCount(eng, 2) = 5
  /\ EdgesHaveTwoFaces(eng) /\ FacesHaveTheirEdges(eng)

(***************************************************************************)
(* Index generators (IndexGenerator.h).  A generator is a record of the    *)
(* members of its class; id names the object, and the iterator m_it of a   *)
(* Vector or Set generator is a position in the container m_indices of the *)
(* object m_it.store.  Comparing or advancing an iterator against another  *)
(* object's container is undefined behaviour: every outcome is possible.   *)
(***************************************************************************)
\* largest identifier a generator is made with
MaxIndex == 3
\* most values a consumer takes from one generator
MaxYield == MaxIndex + 2

Generator(kind, start, stop, indices) ==
  [ kind |-> kind, id |-> "a", status |-> "ok",
    m_start |-> start, m_end |-> stop, m_curr |-> start,
    m_indices |-> indices, m_it |-> [store |-> "a", pos |-> 1] ]

EmptyIndexGenerator == Generator("Empty", 0, 0, << >>)
BoundedIndexGenerator(start, stop) == Generator("Bounded", start, stop, << >>)
VectorIndexGenerator(indices) == Generator("Vector", 0, 0, indices)
\* indices: the elements of the IndexSet in its order
SetIndexGenerator(indices) == Generator("Set", 0, 0, indices)

\* the iterator of g is in the container of another object
Foreign(g) == g.kind \in {"Vector", "Set"} /\ g.m_it.store # g.id

\* end() of a generator whose iterator is in its own container
end(g) ==
  CASE g.kind = "Empty" -> TRUE
    [] g.kind = "Bounded" -> g.m_curr = g.m_end
    [] OTHER -> g.m_it.pos = Len(g.m_indices) + 1

\* what end() can return
endOutcomes(g) == IF Foreign(g) THEN BOOLEAN ELSE {end(g)}

\* operator++ that skips an identifier
incrementSkip(g) ==
  CASE g.kind = "Empty" -> [g EXCEPT !.status = "abort"]
    [] g.kind = "Bounded" -> [g EXCEPT !.m_curr = @ + 2]
    [] OTHER -> [g EXCEPT !.m_it.pos = @ + 2]

\* operator++
increment(g) ==
  CASE g.kind = "Empty" -> [g EXCEPT !.status = "abort"]
    [] g.kind = "Bounded" -> [g EXCEPT !.m_curr = @ + 1]
    [] OTHER -> [g EXCEPT !.m_it.pos = @ + 1]

\* operator* of a generator whose iterator is in its own container and
\* not at the end
deref(g) ==
  CASE g.kind = "Bounded" -> g.m_curr
    [] OTHER -> g.m_indices[g.m_it.pos]

\* what operator* can return once end() has returned false: the container
\* of the other object holds the same identifiers; past them anything
derefOutcomes(g) ==
  IF Foreign(g) /\ g.m_it.pos > Len(g.m_indices) THEN 0..MaxIndex
  ELSE {deref(g)}

\* the copy constructors, for a new object named id
copy(g, id) ==
  CASE g.kind = "Bounded" -> [g EXCEPT !.id = id, !.m_curr = g.m_end]
    [] OTHER -> [g EXCEPT !.id = id]

\* the identifiers a generator with its own iterator yields from here on
RECURSIVE Drain(_, _)
Drain(g, fuel) ==
  IF fuel = 0 \/ end(g) THEN << >>
  ELSE <<deref(g)>> \o Drain(increment(g), fuel - 1)

GeneratorMenu ==
  {EmptyIndexGenerator}
    \cup {BoundedIndexGenerator(start, stop) :
            start \in 0..MaxIndex, stop \in 0..MaxIndex}
    \cup {VectorIndexGenerator(v) : v \in {<< >>, <<2, 0>>, <<1, 1, MaxIndex>>}}
    \cup {SetIndexGenerator(v) : v \in {<< >>, <<0, 2>>, <<1, 2, MaxIndex>>}}

\* a consumer makes the generator a
Make(g) ==
  /\ ~gens.made
  /\ g.m_start <= g.m_end
  /\ gens' = [made |-> TRUE, copied |-> FALSE, a |-> g, b |-> g,
              out |-> [w \in {"a", "b"} |-> << >>],
              ended |-> [w \in {"a", "b"} |-> FALSE],
              incs |-> [w \in {"a", "b"} |-> 0],
              rest |-> << >>]
  /\ UNCHANGED <<eng, last, used, writer>>

\* the consumer copies a into the new object b; rest is what a has still
\* to yield at this point
Copy ==
  /\ gens.made /\ ~gens.copied
  /\ gens' = [gens EXCEPT !.copied = TRUE,
                          !.b = copy(gens.a, "b"),
                          !.out = [w \in {"a", "b"} |-> << >>],
                          !.ended = [w \in {"a", "b"} |-> FALSE],
                          !.incs = [w \in {"a", "b"} |-> 0],
                          !.rest = Drain(gens.a, MaxYield)]
  /\ UNCHANGED <<eng, last, used, writer>>

\* one turn of a conforming consumer's loop on the generator w: it asks
\* end(), and only if that is false takes *g and advances
Use(w) ==
  /\ gens.made /\ (w = "b" => gens.copied)
  /\ gens[w].status = "ok" /\ ~gens.ended[w]
  /\ Len(gens.out[w]) < MaxYield
  /\ \/ TRUE \in endOutcomes(gens[w]) /\ gens' = [gens EXCEPT !.ended[w] = TRUE]
     \/ /\ FALSE \in endOutcomes(gens[w])
        /\ \E v \in derefOutcomes(gens[w]) :
             gens' = [gens EXCEPT !.out[w] = Append(@, v),
                                  !.incs[w] = @ + 1,
                                  ![w] = increment(gens[w])]
     \/ Foreign(gens[w]) /\ gens' = [gens EXCEPT ![w].status = "ub"]
  /\ UNCHANGED <<eng, last, used, writer>>

NextGen ==
  \/ \E g \in GeneratorMenu : Make(g)
  \/ Copy
  \/ \E w \in {"a", "b"} : Use(w)

GenSpec == Init /\ [][NextGen]_vars

\* the sequence s is the beginning of the sequence t
IsPrefix(s, t) ==
  Len(s) <= Len(t) /\ \A k \in 1..Len(s) : s[k] = t[k]

(***************************************************************************)
(* C38: copying a generator preserves its position: once a is copied into  *)
(* b, each of the two yields, whatever the other does, the identifiers a   *)
(* had still to yield when the copy was taken, and reports end() after the *)
(* last of them.                                                           *)
(***************************************************************************)
C38_CopyKeepsPosition ==
  (gens.made /\ gens.copied) =>
    \A w \in {"a", "b"} :
      /\ gens[w].status = "ok"
      /\ IsPrefix(gens.out[w], gens.rest)
      /\ gens.ended[w] => gens.out[w] = gens.rest

(***************************************************************************)
(* C39: generators are finite: a BoundedIndexGenerator(start, end) with    *)
(* start <= end yields start, start + 1, ..., end - 1 in this order and    *)
(* reports end() after exactly end - start increments, an                  *)
(* EmptyIndexGenerator reports end() at once, and the loop of a consumer   *)
(* that asks end() first never fails an assert of a generator.             *)
(***************************************************************************)
C39_GeneratorsFinite ==
  (gens.made /\ ~gens.copied) =>
    LET g == gens.a
        out == gens.out["a"]
        n == gens.incs["a"]
    IN  /\ g.status = "ok"
        /\ g.kind = "Empty" => end(g) /\ out = << >> /\ n = 0
        /\ g.kind = "Bounded" =>
             /\ out = [k \in 1..n |-> g.m_start + k - 1]
             /\ end(g) <=> n = g.m_end - g.m_start
             /\ gens.ended["a"] => n = g.m_end - g.m_start
        /\ g.kind \in {"Vector", "Set"} =>
             /\ out = [k \in 1..n |-> g.m_indices[k]]
             /\ end(g) <=> n = Len(g.m_indices)

\* a consumer took 1 and 2 from BoundedIndexGenerator(1, 3) and saw end()
C39_Witness ==
  /\ gens.made /\ ~gens.copied
  /\ gens.a.kind = "Bounded" /\ gens.a.m_start = 1 /\ gens.a.m_end = 3
  /\ gens.ended["a"] /\ gens.out["a"] = <<1, 2>> /\ gens.incs["a"] = 2

====
